---- MODULE Spec2Model ----
(***************************************************************************)
(* EyeTracker: the session state machine of EyeTrackerApp                  *)
(* (src/eye_tracker.py) and the capture thread / consumer slot of          *)
(* WebCamCamera (src/gazefollower/camera/WebCamCamera.py).                 *)
(*                                                                         *)
(* The specifications share the variables and the camera's actions:        *)
(*   Spec        the program as run: EyeTrackerApp() then run()            *)
(*   SpecHandler handle_click applied to an app object in each AppState    *)
(*   SpecCam     one WebCamCamera driven by arbitrary open / close /       *)
(*               release / set_on_image_callback calls                     *)
(*   SpecImages  the program as run while no gaze result is reported       *)
(*   SpecTier    the two calibration-quality displays, per mean error      *)
(*   SpecFair    the program as run, under fair scheduling                 *)
(*   SpecCamFair one WebCamCamera under arbitrary calls, fair scheduling   *)
(*   SpecStart   start_recording on an app object a session has used       *)
(*   SpecAsync   the program as run, gaze results delivered asynchronously *)
(***************************************************************************)
EXTENDS Integers, Sequences, FiniteSets, TLC

(* ------------------------------ bounds --------------------------------- *)
\* capture threads one camera object ever starts (successful open() calls)
MaxThreads == 2
\* calls the camera harness of SpecCam makes
MaxCalls == 4
\* consecutive device read failures of one capture thread
MaxFails == 2
\* wall-clock seconds the clock runs for
MaxTime == 2
\* wall-clock seconds of a session long enough for two image saves to fall due
MaxLongTime == 4
\* gaze samples one session logs
MaxLog == 1
\* image numbers one session hands out
MaxImages == 2
\* the display, gaze_follower.screen_size, in pixels
ScreenW == 1
ScreenH == 1
\* suffixed names name_1 .. name_MaxDirs that may exist when a session is named
MaxDirs == 1
\* the largest mean calibration error, in ten-thousandths (0.2001)
MaxMeanError == 2001

(* --------------------------- program constants ------------------------- *)
\* self.image_save_interval = 2.0
image_save_interval == 2
\* self._camera_thread = None
NoThread == 0
\* the controlling (main) thread, as a lock owner
Controller == MaxThreads + 1
\* Python's None, and a present value
None == <<>>
Some(x) == <<x>>

AppState == {"IDLE", "CALIBRATED", "RECORDING", "STOPPED"}
Threads == 1..MaxThreads
\* consumers the harness registers; "None" is func=None
HarnessFuncs == {"f1", "f2", "None"}

VARIABLES
  \* ---- WebCamCamera
  camera_thread_running,  \* self._camera_thread_running (None is falsy: FALSE)
  camera_thread,          \* self._camera_thread: NoThread or a thread id
  cap_opened,             \* self._cap.isOpened()
  lock_owner,             \* holder of callback_and_param_lock, NoThread if free
  callback_func,          \* self.callback_func
  callback_args,          \* self.callback_args: tagged by the registration it came with
  callback_kwargs,        \* self.callback_kwargs: tagged likewise
  thr,                    \* capture threads: position and locals of capture()
  \* ---- what has been observed of the camera
  cap_releases,           \* number of self._cap.release() calls
  last_call,              \* <<func, args, kwargs>> of the latest consumer invocation
  cam_closed,             \* close()/release() has returned and open() was not called since
  was_opened,             \* some open() succeeded
  consumer_raised,        \* a consumer raised inside a capture-loop invocation
  \* ---- the controlling thread and the process
  ctl_pc,                 \* position of the controlling thread
  ctl_ret,                \* where set_on_image_callback / release return to
  set_req,                \* the registration set_on_image_callback is storing
  calls,                  \* harness calls made (SpecCam)
  proc,                   \* "running", or how the process ended
  handler,                \* the handler the controlling thread is inside
  \* ---- EyeTrackerApp
  state,
  recording_start_time,
  recording_end_time,
  gaze_data,
  session_dir,
  images_dir,
  last_image_save_time,
  image_counter,
  current_frame,
  current_gaze_x,
  current_gaze_y,
  calibration_score,
  original_camera,        \* original_camera_callback/_args/_kwargs, None if unset
  subscribed,             \* collect_gaze_data is a subscriber of the estimator
  \* ---- collaborators
  cali_error,             \* _calibration_controller.mean_euclidean_error
  saved_files,            \* image numbers written to the images directory, in order
  last_forward,           \* what the bridge last forwarded to: <<func, args, kwargs>>
  statistics,             \* self.statistics, None before calculate_statistics
  stop_done,              \* stop_recording ran to its last statement
  disk,                   \* the names os.path.exists reported present to the naming step of stop
  gaze_calls,             \* gaze-result callbacks the estimator made since start
  lost_calls,             \* those of them that reported tracking loss
  now,                    \* time.time()
  \* ---- what the screens show
  result_quality,         \* the tier draw_cali_result last displayed, None before
  main_quality,           \* the tier draw_ui last displayed, None if none
  \* ---- what stop_recording has completed
  stop_steps,             \* in order: "dirs" (session directory named), "export"
                          \* (save_data returned), "stats" (calculate_statistics returned)
  \* ---- the estimator
  gaze_pending            \* a worker of the estimator has taken collect_gaze_data from
                          \* the subscribers and has not called it yet (SpecAsync)

camVars == <<camera_thread_running, camera_thread, cap_opened, lock_owner,
             callback_func, callback_args, callback_kwargs, thr>>
obsVars == <<cap_releases, last_call, cam_closed, was_opened, consumer_raised>>
ctlVars == <<ctl_pc, ctl_ret, set_req, calls, proc, handler>>
sessionVars == <<recording_start_time, recording_end_time, gaze_data, session_dir,
                 images_dir, last_image_save_time, image_counter, current_frame,
                 current_gaze_x, current_gaze_y, saved_files, last_forward>>
appVars == <<state, sessionVars, calibration_score, original_camera, subscribed,
             cali_error, statistics, stop_done, disk, gaze_calls, lost_calls>>
shownVars == <<result_quality, main_quality>>
vars == <<camVars, obsVars, ctlVars, appVars, now, shownVars, stop_steps, gaze_pending>>

(* ======================= WebCamCamera: capture() ======================= *)

Running == proc = "running"

\* a thread object before start(): the slot open() fills next
\* (fwd: the forwards the bridge made in the invocation the thread is leaving)
Unborn == [pc |-> "unborn", func |-> "None", args |-> "None", fails |-> 0, fwd |-> 0]

\* a thread whose capture() has returned or was left by an exception
Dead == [pc |-> "dead", func |-> "None", args |-> "None", fails |-> 0, fwd |-> 0]

SetThr(i, r) == thr' = [thr EXCEPT ![i] = r]

\* while self._camera_thread_running:
CapLoop(i) ==
  /\ Running
  /\ thr[i].pc = "loop"
  /\ SetThr(i, IF camera_thread_running THEN [thr[i] EXCEPT !.pc = "read"] ELSE Dead)
  /\ UNCHANGED <<camera_thread_running, camera_thread, cap_opened, lock_owner,
                 callback_func, callback_args, callback_kwargs>>
  /\ UNCHANGED <<obsVars, ctlVars, appVars, now, shownVars, stop_steps, gaze_pending>>

ReadFailedBreaks(i) == Dead

\* if not ret: Log.w("Failed to grab frame"); continue
\* (fails counts the failed reads since the last frame that reached the lock)
ReadFailed(i) == [thr[i] EXCEPT !.pc = "loop", !.fails = @ + 1]

\* ret is true: timestamp, cvtColor, resize, then the locked invocation
ReadOk(i) == [thr[i] EXCEPT !.pc = "lock"]

\* ret, frame = self._cap.read()
CapRead(i) ==
  /\ Running
  /\ thr[i].pc = "read"
  /\ \E ret \in BOOLEAN :
       IF ret THEN SetThr(i, ReadOk(i))
       ELSE thr[i].fails < MaxFails /\ SetThr(i, ReadFailed(i))
  /\ UNCHANGED <<camera_thread_running, camera_thread, cap_opened, lock_owner,
                 callback_func, callback_args, callback_kwargs>>
  /\ UNCHANGED <<obsVars, ctlVars, appVars, now, shownVars, stop_steps, gaze_pending>>

LockIgnored(i) == TRUE

\* with self.callback_and_param_lock: the capture thread may enter
LockAvailable(i) == lock_owner = NoThread

CapLock(i) ==
  /\ Running
  /\ thr[i].pc = "lock"
  /\ LockAvailable(i)
  /\ lock_owner' = i
  /\ SetThr(i, [thr[i] EXCEPT !.pc = "check", !.fails = 0])
  /\ UNCHANGED <<camera_thread_running, camera_thread, cap_opened,
                 callback_func, callback_args, callback_kwargs>>
  /\ UNCHANGED <<obsVars, ctlVars, appVars, now, shownVars, stop_steps, gaze_pending>>

\* if self.callback_func is not None:   (else the with-block ends: a no-op)
CapCheck(i) ==
  /\ Running
  /\ thr[i].pc = "check"
  /\ SetThr(i, [thr[i] EXCEPT !.pc = IF callback_func # "None" THEN "func" ELSE "unlock"])
  /\ UNCHANGED <<camera_thread_running, camera_thread, cap_opened, lock_owner,
                 callback_func, callback_args, callback_kwargs>>
  /\ UNCHANGED <<obsVars, ctlVars, appVars, now, shownVars, stop_steps, gaze_pending>>

\* self.callback_func(...): the callee is loaded
CapFunc(i) ==
  /\ Running
  /\ thr[i].pc = "func"
  /\ SetThr(i, [thr[i] EXCEPT !.pc = "args", !.func = callback_func])
  /\ UNCHANGED <<camera_thread_running, camera_thread, cap_opened, lock_owner,
                 callback_func, callback_args, callback_kwargs>>
  /\ UNCHANGED <<obsVars, ctlVars, appVars, now, shownVars, stop_steps, gaze_pending>>

\* *self.callback_args is loaded
CapArgs(i) ==
  /\ Running
  /\ thr[i].pc = "args"
  /\ SetThr(i, [thr[i] EXCEPT !.pc = "call", !.args = callback_args])
  /\ UNCHANGED <<camera_thread_running, camera_thread, cap_opened, lock_owner,
                 callback_func, callback_args, callback_kwargs>>
  /\ UNCHANGED <<obsVars, ctlVars, appVars, now, shownVars, stop_steps, gaze_pending>>

\* the with-block is left normally (the call's temporaries are gone)
CapUnlock(i) ==
  /\ Running
  /\ thr[i].pc = "unlock"
  /\ lock_owner' = IF lock_owner = i THEN NoThread ELSE lock_owner
  /\ SetThr(i, [Dead EXCEPT !.pc = "loop"])
  /\ UNCHANGED <<camera_thread_running, camera_thread, cap_opened,
                 callback_func, callback_args, callback_kwargs>>
  /\ UNCHANGED <<obsVars, ctlVars, appVars, now, shownVars, stop_steps, gaze_pending>>

CapExcept_keeps_lock(i) ==
  /\ lock_owner' = lock_owner
  /\ SetThr(i, Dead)
  /\ consumer_raised' = TRUE
  /\ UNCHANGED proc

\* except Exception as e: Log.e(str(e)); sys.exit(1)
\* The with-block released the lock as the exception left it. sys.exit raises
\* SystemExit in the calling thread; in a thread started by threading.Thread that
\* ends the thread only.
CapExcept(i) ==
  /\ lock_owner' = IF lock_owner = i THEN NoThread ELSE lock_owner
  /\ SetThr(i, Dead)
  /\ consumer_raised' = TRUE
  /\ UNCHANGED proc

(* ============ EyeTrackerApp.start_recording.wrapped_callback =========== *)

\* what one save attempt can do: write the file; raise in os.makedirs (only when
\* the directory is still to be created); raise in cvtColor/imwrite after the
\* counter was incremented; or cv2.imwrite returning False without raising
SaveOutcomes == {"ok", "raise_mkdir", "raise_write", "silent_fail"}

\* the temporary directory session_<start time>, as a directory number (the
\* operator's name is 0 and name_k is k)
TempDir == -1

\* _save_frame_image(frame, timestamp) with outcome o:
\* if self.images_dir is None: session_dir, images_dir = temp names; os.makedirs
\* self.image_counter += 1; cv2.imwrite(image_path, ...)
save_frame_image(o) ==
  /\ o = "raise_mkdir" => images_dir = None
  /\ o # "raise_mkdir" => image_counter < MaxImages
  /\ session_dir' = IF images_dir = None THEN Some(TempDir) ELSE session_dir
  /\ images_dir' = IF images_dir = None THEN Some(TempDir) ELSE images_dir
  /\ image_counter' = IF o = "raise_mkdir" THEN image_counter ELSE image_counter + 1
  /\ saved_files' = IF o = "ok" THEN Append(saved_files, image_counter + 1) ELSE saved_files

\* PARTIE 1 of wrapped_callback: the latest frame, then the periodic save
\* (self.frame_count and self.last_frame_log_time only drive a console message)
BridgePart1 ==
  IF state # "RECORDING"
  THEN UNCHANGED <<current_frame, last_image_save_time, image_counter, session_dir,
                   images_dir, saved_files>>
  ELSE \E copy_ok \in BOOLEAN :
         IF ~copy_ok
         THEN \* frame.copy() raised: the outer except ends PARTIE 1
              UNCHANGED <<current_frame, last_image_save_time, image_counter,
                          session_dir, images_dir, saved_files>>
         ELSE /\ current_frame' = Some("frame")
              /\ IF now - last_image_save_time >= image_save_interval
                 THEN \E o \in SaveOutcomes :
                        /\ save_frame_image(o)
                        /\ last_image_save_time' =
                             IF o \in {"ok", "silent_fail"} THEN now
                             ELSE last_image_save_time
                 ELSE UNCHANGED <<last_image_save_time, image_counter, session_dir,
                                  images_dir, saved_files>>

\* PARTIE 2: if self.original_camera_callback: the forwarded call is made, once
Forwards == IF original_camera # None /\ original_camera[1] # "None" THEN 1 ELSE 0

BridgePart2 ==
  last_forward' = IF Forwards = 1 THEN original_camera ELSE last_forward

forward_escapes_uncaught(raises) == raises

\* except Exception as e: print(...); traceback.print_exc(): an exception of the
\* forwarded call does not leave the bridge
forward_escapes(raises) == FALSE

wrapped_callback ==
  /\ BridgePart1
  /\ BridgePart2
  /\ UNCHANGED <<state, recording_start_time, recording_end_time, gaze_data,
                 current_gaze_x, current_gaze_y, calibration_score, original_camera,
                 subscribed, cali_error, statistics, stop_done, disk, gaze_calls, lost_calls>>

(* ================== capture(): the consumer invocation ================= *)

\* self.callback_func(self.camera_running_state, timestamp, frame,
\*                    *self.callback_args, **self.callback_kwargs)
CapCall(i) ==
  /\ Running
  /\ thr[i].pc = "call"
  /\ last_call' = <<thr[i].func, thr[i].args, callback_kwargs>>
  /\ UNCHANGED <<cap_releases, cam_closed, was_opened>>
  /\ UNCHANGED <<camera_thread_running, camera_thread, cap_opened,
                 callback_func, callback_args, callback_kwargs>>
  /\ UNCHANGED <<ctl_pc, ctl_ret, set_req, calls, handler, now, shownVars, stop_steps, gaze_pending>>
  /\ CASE thr[i].func = "None" ->
            \* calling None raises TypeError inside the try
            CapExcept(i) /\ UNCHANGED appVars
       [] thr[i].func = "wrapped_callback" ->
            \* the bridge catches everything it does
            /\ wrapped_callback
            /\ \E fwd_raises \in BOOLEAN :
                 IF Forwards = 1 /\ forward_escapes(fwd_raises)
                 THEN CapExcept(i)
                 ELSE /\ SetThr(i, [thr[i] EXCEPT !.pc = "unlock", !.func = "None",
                                                  !.args = "None", !.fwd = Forwards])
                      /\ UNCHANGED <<lock_owner, consumer_raised, proc>>
       [] OTHER ->
            /\ UNCHANGED appVars
            /\ \E raises \in BOOLEAN :
                 IF raises THEN CapExcept(i)
                 ELSE /\ SetThr(i, [thr[i] EXCEPT !.pc = "unlock", !.func = "None", !.args = "None"])
                      /\ UNCHANGED <<lock_owner, consumer_raised, proc>>

(* ============ Camera.set_on_image_callback (base class) ================ *)
\* WebCamCamera.set_on_image_callback only calls super(); the base class takes
\* callback_and_param_lock and stores func, args and kwargs.

Registration(f) == [func |-> f, args |-> f, kwargs |-> f]

SetLock ==
  /\ Running
  /\ ctl_pc = "set_lock"
  /\ lock_owner = NoThread
  /\ lock_owner' = Controller
  /\ ctl_pc' = "set_func"
  /\ UNCHANGED <<camera_thread_running, camera_thread, cap_opened,
                 callback_func, callback_args, callback_kwargs, thr>>
  /\ UNCHANGED <<obsVars, ctl_ret, set_req, calls, proc, handler, appVars, now, shownVars, stop_steps, gaze_pending>>

SetFunc ==
  /\ Running
  /\ ctl_pc = "set_func"
  /\ callback_func' = set_req.func
  /\ ctl_pc' = "set_args"
  /\ UNCHANGED <<camera_thread_running, camera_thread, cap_opened, lock_owner,
                 callback_args, callback_kwargs, thr>>
  /\ UNCHANGED <<obsVars, ctl_ret, set_req, calls, proc, handler, appVars, now, shownVars, stop_steps, gaze_pending>>

SetArgs ==
  /\ Running
  /\ ctl_pc = "set_args"
  /\ callback_args' = set_req.args
  /\ ctl_pc' = "set_kwargs"
  /\ UNCHANGED <<camera_thread_running, camera_thread, cap_opened, lock_owner,
                 callback_func, callback_kwargs, thr>>
  /\ UNCHANGED <<obsVars, ctl_ret, set_req, calls, proc, handler, appVars, now, shownVars, stop_steps, gaze_pending>>

SetKwargs ==
  /\ Running
  /\ ctl_pc = "set_kwargs"
  /\ callback_kwargs' = set_req.kwargs
  /\ lock_owner' = IF lock_owner = Controller THEN NoThread ELSE lock_owner
  /\ ctl_pc' = ctl_ret
  /\ handler' = IF ctl_ret \in {"idle", "main"} THEN "none" ELSE handler
  /\ UNCHANGED <<camera_thread_running, camera_thread, cap_opened,
                 callback_func, callback_args, thr>>
  /\ UNCHANGED <<obsVars, ctl_ret, set_req, calls, proc, appVars, now, shownVars, stop_steps, gaze_pending>>

(* ================ WebCamCamera.open / close / release ================== *)

FreeSlot == CHOOSE i \in Threads : thr[i].pc = "unborn" /\ \A j \in Threads : j < i => thr[j].pc # "unborn"

\* _create_capture_thread(): the flag, a new daemon thread, start()
create_capture_thread ==
  /\ camera_thread_running' = TRUE
  /\ camera_thread' = FreeSlot
  /\ thr' = [thr EXCEPT ![FreeSlot] = [@ EXCEPT !.pc = "loop"]]

\* close(): if self._camera_thread is not None: flag = False; join()
close_begin ==
  IF camera_thread # NoThread
  THEN camera_thread_running' = FALSE /\ ctl_pc' = "close_join"
  ELSE UNCHANGED camera_thread_running /\ ctl_pc' = "close_release"

\* self._camera_thread.join() returns
CloseJoin ==
  /\ Running
  /\ ctl_pc = "close_join"
  /\ thr[camera_thread].pc = "dead"
  /\ ctl_pc' = "close_release"
  /\ UNCHANGED <<camVars, obsVars, ctl_ret, set_req, calls, proc, handler, appVars, now, shownVars, stop_steps, gaze_pending>>

\* if not self._cap.isOpened(): self._cap.release()
cap_release_if ==
  /\ cap_releases' = IF ~cap_opened THEN cap_releases + 1 ELSE cap_releases
  /\ cap_opened' = cap_opened

\* the end of close(): the device check, then the return to the caller
CloseRelease ==
  /\ Running
  /\ ctl_pc = "close_release"
  /\ cap_release_if
  /\ cam_closed' = TRUE
  /\ ctl_pc' = ctl_ret
  /\ handler' = IF ctl_ret = "idle" THEN "none" ELSE handler
  /\ UNCHANGED <<camera_thread_running, camera_thread, lock_owner,
                 callback_func, callback_args, callback_kwargs, thr>>
  /\ UNCHANGED <<last_call, was_opened, consumer_raised>>
  /\ UNCHANGED <<ctl_ret, set_req, calls, proc, appVars, now, shownVars, stop_steps, gaze_pending>>

\* release(): self._camera_thread.join() returns, then self.close()
ReleaseJoin ==
  /\ Running
  /\ ctl_pc = "release_join"
  /\ thr[camera_thread].pc = "dead"
  /\ close_begin
  /\ UNCHANGED <<camera_thread, cap_opened, lock_owner,
                 callback_func, callback_args, callback_kwargs, thr>>
  /\ UNCHANGED <<obsVars, ctl_ret, set_req, calls, proc, handler, appVars, now, shownVars, stop_steps, gaze_pending>>

(* ===================== SpecCam: the camera's callers =================== *)

\* open(): self._cap.open(...) fails and raises, or succeeds and the capture
\* thread is created. cv2.VideoCapture.open closes an already-open device first.
HarnessOpen ==
  /\ Running /\ ctl_pc = "idle" /\ calls < MaxCalls
  /\ calls' = calls + 1
  /\ cam_closed' = FALSE
  /\ \E ok \in BOOLEAN :
       IF ok
       THEN /\ \E i \in Threads : thr[i].pc = "unborn"
            /\ cap_opened' = TRUE
            /\ was_opened' = TRUE
            /\ create_capture_thread
       ELSE /\ cap_opened' = FALSE
            /\ UNCHANGED <<was_opened, camera_thread_running, camera_thread, thr>>
  /\ UNCHANGED <<lock_owner, callback_func, callback_args, callback_kwargs>>
  /\ UNCHANGED <<cap_releases, last_call, consumer_raised>>
  /\ UNCHANGED <<ctl_pc, ctl_ret, set_req, proc, handler, appVars, now, shownVars, stop_steps, gaze_pending>>

HarnessClose ==
  /\ Running /\ ctl_pc = "idle" /\ calls < MaxCalls
  /\ calls' = calls + 1
  /\ handler' = "close"
  /\ ctl_ret' = "idle"
  /\ close_begin
  /\ UNCHANGED <<camera_thread, cap_opened, lock_owner,
                 callback_func, callback_args, callback_kwargs, thr>>
  /\ UNCHANGED <<obsVars, set_req, proc, appVars, now, shownVars, stop_steps, gaze_pending>>

\* release(): flag = False; self._camera_thread.join() raises AttributeError
\* when no thread was ever created
HarnessRelease ==
  /\ Running /\ ctl_pc = "idle" /\ calls < MaxCalls
  /\ calls' = calls + 1
  /\ camera_thread_running' = FALSE
  /\ ctl_ret' = "idle"
  /\ IF camera_thread = NoThread
     THEN ctl_pc' = "idle" /\ handler' = "none"
     ELSE ctl_pc' = "release_join" /\ handler' = "release"
  /\ UNCHANGED <<camera_thread, cap_opened, lock_owner,
                 callback_func, callback_args, callback_kwargs, thr>>
  /\ UNCHANGED <<obsVars, set_req, proc, appVars, now, shownVars, stop_steps, gaze_pending>>

HarnessSet(f) ==
  /\ Running /\ ctl_pc = "idle" /\ calls < MaxCalls
  /\ calls' = calls + 1
  /\ set_req' = Registration(f)
  /\ ctl_ret' = "idle"
  /\ ctl_pc' = "set_lock"
  /\ handler' = "set"
  /\ UNCHANGED <<camVars, obsVars, proc, appVars, now, shownVars, stop_steps, gaze_pending>>

(* ===================== EyeTrackerApp: collaborators ==================== *)

\* the mean_euclidean_error the calibration controller reports, in
\* ten-thousandths (0.049)
Scores == {490}

\* the mean errors the two quality displays are applied to, in ten-thousandths
MeanErrors == 0..MaxMeanError

draw_calibration_quality_inclusive(score) ==
  IF score = None THEN None
  ELSE Some(IF score[1] <= 500 THEN "EXCELLENT"
            ELSE IF score[1] <= 1000 THEN "BONNE"
            ELSE IF score[1] <= 2000 THEN "MOYENNE"
            ELSE "FAIBLE")

\* draw_calibration_quality(): nothing is drawn when self.calibration_score is
\* None; else the tier is chosen by < 0.05, < 0.10, < 0.20, else
draw_calibration_quality(score) ==
  IF score = None THEN None
  ELSE Some(IF score[1] < 500 THEN "EXCELLENT"
            ELSE IF score[1] < 1000 THEN "BONNE"
            ELSE IF score[1] < 2000 THEN "MOYENNE"
            ELSE "FAIBLE")

\* draw_cali_result(): calibration_score = mean_euclidean_error if
\* mean_euclidean_error else 0 (None and 0.0 are falsy), then the same chain
draw_cali_result(mean_euclidean_error) ==
  LET score == IF mean_euclidean_error = None \/ mean_euclidean_error = Some(0)
               THEN 0 ELSE mean_euclidean_error[1]
  IN IF score < 500 THEN "EXCELLENT"
     ELSE IF score < 1000 THEN "BONNE"
     ELSE IF score < 2000 THEN "MOYENNE"
     ELSE "FAIBLE"

\* what the estimator hands to a subscriber: gaze_info None; status false;
\* status true without filtered coordinates; status true with coordinates on the
\* edge of the display, and off it (right of it and above it)
GazeInputs ==
  {[null |-> TRUE, status |-> FALSE, coords |-> None],
   [null |-> FALSE, status |-> FALSE, coords |-> None],
   [null |-> FALSE, status |-> TRUE, coords |-> None],
   [null |-> FALSE, status |-> TRUE, coords |-> <<0, ScreenH>>],
   [null |-> FALSE, status |-> TRUE, coords |-> <<ScreenW + 1, -1>>]}

Sample_unbounded(g) ==
  LET ok == ~g.null /\ g.status
      has == ok /\ g.coords # None
  IN [gaze_x |-> IF has THEN Some(g.coords[1]) ELSE None,
      gaze_y |-> IF has THEN Some(g.coords[2]) ELSE None,
      status |-> ok,
      looking_at_screen |-> has,
      tracking_lost |-> ~ok]

\* the sample collect_gaze_data appends for gaze_info g (its 'timestamp', the
\* estimator's own clock value, is not read by the application and is left out)
Sample(g) ==
  LET ok == ~g.null /\ g.status
      has == ok /\ g.coords # None
  IN [gaze_x |-> IF has THEN Some(g.coords[1]) ELSE None,
      gaze_y |-> IF has THEN Some(g.coords[2]) ELSE None,
      status |-> ok,
      looking_at_screen |-> has /\ 0 <= g.coords[1] /\ g.coords[1] <= ScreenW
                                /\ 0 <= g.coords[2] /\ g.coords[2] <= ScreenH,
      tracking_lost |-> ~ok]

collect_gaze_data_skips_lost(g) ==
  LET ok == ~g.null /\ g.status
      has == ok /\ g.coords # None
  IN /\ current_gaze_x' = IF has THEN Some(g.coords[1])
                          ELSE IF ok THEN current_gaze_x ELSE None
     /\ current_gaze_y' = IF has THEN Some(g.coords[2])
                          ELSE IF ok THEN current_gaze_y ELSE None
     /\ gaze_data' = IF ok THEN Append(gaze_data, Sample(g)) ELSE gaze_data

\* collect_gaze_data(face_info, gaze_info), called by the estimator while subscribed
collect_gaze_data(g) ==
  LET ok == ~g.null /\ g.status
      has == ok /\ g.coords # None
  IN /\ current_gaze_x' = IF has THEN Some(g.coords[1])
                          ELSE IF ok THEN current_gaze_x ELSE None
     /\ current_gaze_y' = IF has THEN Some(g.coords[2])
                          ELSE IF ok THEN current_gaze_y ELSE None
     /\ gaze_data' = Append(gaze_data, Sample(g))

GazeCallback ==
  /\ Running
  /\ subscribed
  /\ Len(gaze_data) < MaxLog
  /\ \E g \in GazeInputs :
       /\ collect_gaze_data(g)
       /\ gaze_calls' = gaze_calls + 1
       /\ lost_calls' = lost_calls + (IF g.null \/ ~g.status THEN 1 ELSE 0)
  /\ UNCHANGED <<state, recording_start_time, recording_end_time, session_dir,
                 images_dir, last_image_save_time, image_counter, current_frame,
                 saved_files, last_forward, calibration_score, original_camera,
                 subscribed, cali_error, statistics, stop_done, disk>>
  /\ UNCHANGED <<camVars, obsVars, ctlVars, now, shownVars, stop_steps, gaze_pending>>

\* The estimator delivers a result from a thread of its own (SpecAsync): it takes
\* the subscribers while collect_gaze_data is one of them ...
GazeDispatch ==
  /\ Running
  /\ subscribed
  /\ ~gaze_pending
  /\ Len(gaze_data) < MaxLog
  /\ gaze_pending' = TRUE
  /\ UNCHANGED <<camVars, obsVars, ctlVars, appVars, now, shownVars, stop_steps>>

\* ... and then calls it; remove_subscriber() does not wait for that call
GazeDeliver ==
  /\ Running
  /\ gaze_pending
  /\ gaze_pending' = FALSE
  /\ \E g \in GazeInputs :
       /\ collect_gaze_data(g)
       /\ gaze_calls' = gaze_calls + 1
       /\ lost_calls' = lost_calls + (IF g.null \/ ~g.status THEN 1 ELSE 0)
  /\ UNCHANGED <<state, recording_start_time, recording_end_time, session_dir,
                 images_dir, last_image_save_time, image_counter, current_frame,
                 saved_files, last_forward, calibration_score, original_camera,
                 subscribed, cali_error, statistics, stop_done, disk>>
  /\ UNCHANGED <<camVars, obsVars, ctlVars, now, shownVars, stop_steps>>

\* time.time() advances. The clock is read by start_recording(), by the bridge
\* and by stop_recording(), all of them with state = RECORDING, and only
\* differences of its readings are used: it is taken to stand still otherwise.
TickTo(horizon) ==
  /\ Running
  /\ state = "RECORDING"
  /\ now < horizon
  /\ now' = now + 1
  /\ UNCHANGED <<camVars, obsVars, ctlVars, appVars, shownVars, stop_steps, gaze_pending>>

Tick == TickTo(MaxTime)

TickLong == TickTo(MaxLongTime)

(* ===================== EyeTrackerApp.handle_click ====================== *)

\* the buttons, in the order of handle_click's if/elif chain
ButtonOrder == <<"calibrate", "start", "stop", "recalibrate", "same", "new", "quit">>
Buttons == {ButtonOrder[k] : k \in 1..Len(ButtonOrder)}

\* the first button of the chain whose rectangle holds the click; a click position
\* is given by the set of rectangles it lies in (setup_buttons lets them overlap)
FirstHit(pos) ==
  IF pos = {} THEN "none"
  ELSE ButtonOrder[CHOOSE k \in 1..Len(ButtonOrder) :
                      /\ ButtonOrder[k] \in pos
                      /\ \A j \in 1..(k - 1) : ButtonOrder[j] \notin pos]

click_enabled_start_anywhere(b) ==
  CASE b = "calibrate" -> state = "IDLE"
    [] b = "start" -> TRUE
    [] b = "stop" -> state = "RECORDING"
    [] b = "recalibrate" -> state = "CALIBRATED"
    [] b = "same" -> state = "STOPPED"
    [] b = "new" -> state = "STOPPED"
    [] b = "quit" -> state = "STOPPED"
    [] OTHER -> FALSE

click_enabled_stop_anywhere(b) ==
  CASE b = "calibrate" -> state = "IDLE"
    [] b = "start" -> state = "CALIBRATED"
    [] b = "stop" -> TRUE
    [] b = "recalibrate" -> state = "CALIBRATED"
    [] b = "same" -> state = "STOPPED"
    [] b = "new" -> state = "STOPPED"
    [] b = "quit" -> state = "STOPPED"
    [] OTHER -> FALSE

\* the state test under each branch of handle_click
click_enabled(b) ==
  CASE b = "calibrate" -> state = "IDLE"
    [] b = "start" -> state = "CALIBRATED"
    [] b = "stop" -> state = "RECORDING"
    [] b = "recalibrate" -> state = "CALIBRATED"
    [] b = "same" -> state = "STOPPED"
    [] b = "new" -> state = "STOPPED"
    [] b = "quit" -> state = "STOPPED"
    [] OTHER -> FALSE

continue_same_keeps_log ==
  /\ state' = "CALIBRATED"
  /\ recording_start_time' = None
  /\ recording_end_time' = None
  /\ gaze_data' = gaze_data

\* the STOPPED branch of new_session_same_calib_button
continue_same ==
  /\ state' = "CALIBRATED"
  /\ recording_start_time' = None
  /\ recording_end_time' = None
  /\ gaze_data' = <<>>

\* release() as the application calls it (through gaze_follower.release()):
\* flag = False, then the join
release_begin ==
  /\ camera_thread_running' = FALSE
  /\ ctl_pc' = IF camera_thread = NoThread THEN ctl_ret' ELSE "release_join"

\* cleanup_and_quit(): stop a running recording, else release and sys.exit()
cleanup_and_quit(h) ==
  IF state = "RECORDING"
  THEN /\ ctl_pc' = "stop_recording"
       /\ handler' = h
       /\ UNCHANGED <<ctl_ret, camera_thread_running>>
  ELSE /\ ctl_ret' = "quit_exit"
       /\ handler' = h
       /\ release_begin

handle_click(pos) ==
  LET b == FirstHit(pos) IN
  /\ Running
  /\ ctl_pc = "main"
  /\ IF ~click_enabled(b)
     THEN UNCHANGED vars
     ELSE /\ UNCHANGED <<obsVars, set_req, calls, proc, now, shownVars, stop_steps, gaze_pending>>
          /\ UNCHANGED <<camera_thread, cap_opened, lock_owner,
                         callback_func, callback_args, callback_kwargs, thr>>
          /\ UNCHANGED <<session_dir, images_dir, last_image_save_time, image_counter,
                         current_frame, current_gaze_x, current_gaze_y, saved_files,
                         last_forward, calibration_score, original_camera, subscribed,
                         cali_error, statistics, stop_done, disk, gaze_calls, lost_calls>>
          /\ CASE b \in {"calibrate", "recalibrate", "new"} ->
                    /\ ctl_pc' = "calibrate" /\ handler' = b
                    /\ UNCHANGED <<ctl_ret, camera_thread_running, state,
                                   recording_start_time, recording_end_time, gaze_data>>
               [] b = "start" ->
                    /\ ctl_pc' = "start_recording" /\ handler' = b
                    /\ UNCHANGED <<ctl_ret, camera_thread_running, state,
                                   recording_start_time, recording_end_time, gaze_data>>
               [] b = "stop" ->
                    /\ ctl_pc' = "stop_recording" /\ handler' = b
                    /\ UNCHANGED <<ctl_ret, camera_thread_running, state,
                                   recording_start_time, recording_end_time, gaze_data>>
               [] b = "same" ->
                    /\ continue_same
                    /\ UNCHANGED <<ctl_pc, ctl_ret, handler, camera_thread_running>>
               [] b = "quit" ->
                    /\ cleanup_and_quit(b)
                    /\ UNCHANGED <<state, recording_start_time, recording_end_time,
                                   gaze_data>>

\* click positions: outside every button, inside one button, and inside the two
\* pairs of rectangles setup_buttons overlaps (start/continue and stop/recalibrate-
\* and-continue share their column and differ by 0.02 * screen_height in y)
ClickRegions ==
  {{}} \cup {{b} : b \in Buttons} \cup {{"start", "same"}, {"stop", "new"}}

HandleClick == \E pos \in ClickRegions : handle_click(pos)

\* run(): pygame.QUIT, or K_ESCAPE in STOPPED, ends the loop and run() calls
\* cleanup_and_quit(); K_ESCAPE in another state only prints
RunQuit ==
  /\ Running
  /\ ctl_pc = "main"
  /\ \E ev \in {"QUIT", "ESCAPE"} :
       IF ev = "ESCAPE" /\ state # "STOPPED"
       THEN UNCHANGED vars
       ELSE /\ cleanup_and_quit("run_exit")
            /\ UNCHANGED <<obsVars, set_req, calls, proc, now, appVars, shownVars, stop_steps, gaze_pending>>
            /\ UNCHANGED <<camera_thread, cap_opened, lock_owner,
                           callback_func, callback_args, callback_kwargs, thr>>

(* ======================== EyeTrackerApp.calibrate ====================== *)

\* one pass of the while True loop: the protocol runs, the controller fits and
\* reports an error, draw_cali_result returns the operator's answer
CalibrateAttempt ==
  /\ Running
  /\ ctl_pc = "calibrate"
  /\ \E e \in Scores : cali_error' = Some(e)
  /\ \E user_response \in BOOLEAN :
       ctl_pc' = IF user_response THEN "cal_store" ELSE "calibrate"
  /\ UNCHANGED <<state, sessionVars, calibration_score, original_camera, subscribed,
                 statistics, stop_done, disk, gaze_calls, lost_calls>>
  /\ UNCHANGED <<camVars, obsVars, ctl_ret, set_req, calls, proc, handler, now, shownVars, stop_steps, gaze_pending>>

cal_store_no_autostart ==
  /\ calibration_score' = cali_error
  /\ state' = "CALIBRATED"
  /\ ctl_pc' = "main"
  /\ handler' = "none"

\* after the loop: the score is stored, the state set, start_recording() called
cal_store ==
  /\ calibration_score' = cali_error
  /\ state' = "CALIBRATED"
  /\ ctl_pc' = "start_recording"
  /\ handler' = handler

CalStore ==
  /\ Running
  /\ ctl_pc = "cal_store"
  /\ cal_store
  /\ UNCHANGED <<sessionVars, original_camera, subscribed, cali_error, statistics,
                 stop_done, disk, gaze_calls, lost_calls>>
  /\ UNCHANGED <<camVars, obsVars, ctl_ret, set_req, calls, proc, now, shownVars, stop_steps, gaze_pending>>

(* ==================== EyeTrackerApp.start_recording ==================== *)

start_reset_keeps_state ==
  /\ state' = state
  /\ recording_start_time' = Some(now)
  /\ gaze_data' = <<>>
  /\ last_image_save_time' = now
  /\ image_counter' = 0
  /\ current_frame' = None
  /\ current_gaze_x' = None
  /\ current_gaze_y' = None

start_reset_keeps_counter ==
  /\ state' = "RECORDING"
  /\ recording_start_time' = Some(now)
  /\ gaze_data' = <<>>
  /\ last_image_save_time' = now
  /\ image_counter' = image_counter
  /\ current_frame' = None
  /\ current_gaze_x' = None
  /\ current_gaze_y' = None

\* the head of start_recording(): the state and the per-session fields
start_reset ==
  /\ state' = "RECORDING"
  /\ recording_start_time' = Some(now)
  /\ gaze_data' = <<>>
  /\ last_image_save_time' = now
  /\ image_counter' = 0
  /\ current_frame' = None
  /\ current_gaze_x' = None
  /\ current_gaze_y' = None

saved_consumer_after_install ==
  <<"wrapped_callback", "wrapped_callback", "wrapped_callback">>

\* self.original_camera_callback / _args / _kwargs = the camera's callback_func /
\* callback_args / callback_kwargs, read before the bridge is registered
saved_consumer == <<callback_func, callback_args, callback_kwargs>>

\* start_recording(): the resets, the saved consumer, then
\* set_on_image_callback(wrapped_callback)
StartRecording ==
  /\ Running
  /\ ctl_pc = "start_recording"
  /\ start_reset
  /\ gaze_calls' = 0 /\ lost_calls' = 0
  /\ original_camera' = saved_consumer
  /\ set_req' = Registration("wrapped_callback")
  /\ ctl_ret' = "start_subscribe"
  /\ ctl_pc' = "set_lock"
  /\ UNCHANGED <<recording_end_time, session_dir, images_dir, saved_files, last_forward,
                 calibration_score, subscribed, cali_error, statistics, stop_done, disk>>
  /\ UNCHANGED <<camVars, obsVars, calls, proc, handler, now, shownVars, stop_steps, gaze_pending>>

\* add_subscriber(self.collect_gaze_data); start_sampling(); the handler returns
StartSubscribe ==
  /\ Running
  /\ ctl_pc = "start_subscribe"
  /\ subscribed' = TRUE
  /\ ctl_pc' = "main"
  /\ handler' = "none"
  /\ UNCHANGED <<state, sessionVars, calibration_score, original_camera, cali_error,
                 statistics, stop_done, disk, gaze_calls, lost_calls>>
  /\ UNCHANGED <<camVars, obsVars, ctl_ret, set_req, calls, proc, now, shownVars, stop_steps, gaze_pending>>

(* ===================== EyeTrackerApp.stop_recording ==================== *)

\* stop_sampling(); remove_subscriber(); then the saved consumer is registered
\* again if the attribute exists
StopUnsubscribe ==
  /\ Running
  /\ ctl_pc = "stop_recording"
  /\ subscribed' = FALSE
  /\ IF original_camera # None
     THEN /\ set_req' = [func |-> original_camera[1], args |-> original_camera[2],
                         kwargs |-> original_camera[3]]
          /\ ctl_ret' = "stop_reset"
          /\ ctl_pc' = "set_lock"
     ELSE /\ ctl_pc' = "stop_reset"
          /\ UNCHANGED <<set_req, ctl_ret>>
  /\ UNCHANGED <<state, sessionVars, calibration_score, original_camera, cali_error,
                 statistics, stop_done, disk, gaze_calls, lost_calls>>
  /\ UNCHANGED <<camVars, obsVars, calls, proc, handler, now, shownVars, stop_steps, gaze_pending>>

\* the live-display fields are cleared, the end time taken; get_session_name()
StopReset ==
  /\ Running
  /\ ctl_pc = "stop_reset"
  /\ current_frame' = None
  /\ current_gaze_x' = None
  /\ current_gaze_y' = None
  /\ recording_end_time' = Some(now)
  /\ ctl_pc' = "stop_dirs"
  /\ UNCHANGED <<state, recording_start_time, gaze_data, session_dir, images_dir,
                 last_image_save_time, image_counter, saved_files, last_forward,
                 calibration_score, original_camera, subscribed, cali_error,
                 statistics, stop_done, disk, gaze_calls, lost_calls>>
  /\ UNCHANGED <<camVars, obsVars, ctl_ret, set_req, calls, proc, handler, now, shownVars, stop_steps, gaze_pending>>

\* the suffix loop: the smallest k >= 1 for which name_k does not exist
\* (directories are numbered: 0 is the operator's name, k is name_k)
FreeSuffix(existing) ==
  CHOOSE k \in 1..(MaxDirs + 1) :
    k \notin existing /\ \A j \in 1..(k - 1) : j \in existing

\* the directory the session ends in, given the names that exist and whether the
\* temporary directory does:
\* if self.session_dir is not None: if os.path.exists(self.session_dir):
\*     if os.path.exists(new_session_dir): suffix loop; os.rename(...)
\* else: self.session_dir = name; os.makedirs(self.session_dir, exist_ok=True)
final_session_dir(existing, temp_exists) ==
  IF session_dir # None
  THEN IF temp_exists
       THEN Some(IF 0 \in existing THEN FreeSuffix(existing) ELSE 0)
       ELSE session_dir
  ELSE Some(0)

\* the temporary directory is renamed to the session's name, or the session
\* directory is created when no image was saved
StopDirs ==
  /\ Running
  /\ ctl_pc = "stop_dirs"
  /\ \E existing \in SUBSET (0..MaxDirs), temp_exists \in BOOLEAN :
       /\ saved_files # <<>> => temp_exists
       /\ session_dir = None => temp_exists
       /\ disk' = Some(existing)
       /\ session_dir' = final_session_dir(existing, temp_exists)
       /\ images_dir' = IF session_dir # None /\ temp_exists
                        THEN final_session_dir(existing, temp_exists) ELSE images_dir
  /\ ctl_pc' = "stop_export"
  /\ UNCHANGED <<state, recording_start_time, recording_end_time, gaze_data,
                 last_image_save_time, image_counter, current_frame, current_gaze_x,
                 current_gaze_y, saved_files, last_forward, calibration_score,
                 original_camera, subscribed, cali_error, statistics, stop_done,
                 gaze_calls, lost_calls>>
  /\ stop_steps' = Append(stop_steps, "dirs")
  /\ UNCHANGED <<camVars, obsVars, ctl_ret, set_req, calls, proc, handler, now, shownVars, gaze_pending>>

save_data_skipped == stop_steps' = stop_steps

\* self.gaze_follower.save_data(csv_path) writes the sample table and returns
save_data == stop_steps' = Append(stop_steps, "export")

\* the export into the session directory; what the naming step saw of the disk
\* is not used again
StopExport ==
  /\ Running
  /\ ctl_pc = "stop_export"
  /\ ctl_pc' = "stop_stats"
  /\ disk' = None
  /\ save_data
  /\ UNCHANGED <<state, sessionVars, calibration_score, original_camera, subscribed,
                 cali_error, statistics, stop_done, gaze_calls, lost_calls>>
  /\ UNCHANGED <<camVars, obsVars, ctl_ret, set_req, calls, proc, handler, now, shownVars, gaze_pending>>

Count(P(_), log) == Cardinality({k \in 1..Len(log) : P(log[k])})
IsLooking(d) == d.looking_at_screen
IsLost_not_on_screen(d) == ~d.looking_at_screen
IsLost(d) == d.tracking_lost
IsValid(d) == d.status /\ d.gaze_x # None

\* total_duration = self.recording_end_time - self.recording_start_time
Duration == recording_end_time[1] - recording_start_time[1]

\* a quotient n / d of the statistics, kept exact as the pair <<n, d>>
Frac(n, d) == <<n, d>>

calculate_statistics_lost_is_offscreen ==
  statistics' =
    IF gaze_data = <<>> THEN statistics
    ELSE LET n == Len(gaze_data)
             screen == Count(IsLooking, gaze_data)
             lost == n - screen
         IN Some([total_duration |-> Duration,
                  time_looking_at_screen |-> Frac(screen * Duration, n),
                  time_tracking_lost |-> Frac(lost * Duration, n),
                  percentage_looking |-> IF Duration > 0
                                         THEN Frac(100 * screen * Duration, n * Duration)
                                         ELSE Frac(0, 1),
                  percentage_lost |-> IF Duration > 0
                                      THEN Frac(100 * lost * Duration, n * Duration)
                                      ELSE Frac(0, 1),
                  total_samples |-> n,
                  valid_samples |-> Count(IsValid, gaze_data),
                  screen_samples |-> screen,
                  lost_samples |-> lost])

\* calculate_statistics(): `if not self.gaze_data: return` leaves self.statistics
\* as it was; otherwise the counts, the times (count / len * duration) and the
\* percentages (time / duration * 100 if duration > 0 else 0)
calculate_statistics ==
  statistics' =
    IF gaze_data = <<>> THEN statistics
    ELSE LET n == Len(gaze_data)
             screen == Count(IsLooking, gaze_data)
             lost == Count(IsLost, gaze_data)
         IN Some([total_duration |-> Duration,
                  time_looking_at_screen |-> Frac(screen * Duration, n),
                  time_tracking_lost |-> Frac(lost * Duration, n),
                  percentage_looking |-> IF Duration > 0
                                         THEN Frac(100 * screen * Duration, n * Duration)
                                         ELSE Frac(0, 1),
                  percentage_lost |-> IF Duration > 0
                                      THEN Frac(100 * lost * Duration, n * Duration)
                                      ELSE Frac(0, 1),
                  total_samples |-> n,
                  valid_samples |-> Count(IsValid, gaze_data),
                  screen_samples |-> screen,
                  lost_samples |-> lost])

\* calculate_statistics(), then gaze_follower.release() inside try/except
StopStats ==
  /\ Running
  /\ ctl_pc = "stop_stats"
  /\ calculate_statistics
  /\ ctl_ret' = "stop_exit"
  /\ release_begin
  /\ UNCHANGED <<state, sessionVars, calibration_score, original_camera, subscribed,
                 cali_error, stop_done, disk, gaze_calls, lost_calls>>
  /\ UNCHANGED <<camera_thread, cap_opened, lock_owner,
                 callback_func, callback_args, callback_kwargs, thr>>
  /\ stop_steps' = Append(stop_steps, "stats")
  /\ UNCHANGED <<obsVars, set_req, calls, proc, handler, now, shownVars, gaze_pending>>

\* pygame.quit(); os._exit(0): the last statement of stop_recording
StopExit ==
  /\ Running
  /\ ctl_pc = "stop_exit"
  /\ proc' = "os._exit"
  /\ stop_done' = TRUE
  /\ UNCHANGED <<state, sessionVars, calibration_score, original_camera, subscribed,
                 cali_error, statistics, disk, gaze_calls, lost_calls>>
  /\ UNCHANGED <<camVars, obsVars, ctl_pc, ctl_ret, set_req, calls, handler, now, shownVars, stop_steps, gaze_pending>>

\* cleanup_and_quit(): pygame.quit(); sys.exit() on the main thread
QuitExit ==
  /\ Running
  /\ ctl_pc = "quit_exit"
  /\ proc' = "sys.exit"
  /\ UNCHANGED <<camVars, obsVars, ctl_pc, ctl_ret, set_req, calls, handler, appVars, now, shownVars, stop_steps, gaze_pending>>

(* ============================ initial states =========================== *)

\* WebCamCamera.__init__ (and the base Camera's: no consumer, the lock free)
CamInit ==
  /\ camera_thread_running = FALSE
  /\ camera_thread = NoThread
  /\ cap_opened = FALSE
  /\ lock_owner = NoThread
  /\ callback_func = "None"
  /\ callback_args = "None"
  /\ callback_kwargs = "None"
  /\ thr = [i \in Threads |-> Unborn]
  /\ cap_releases = 0
  /\ last_call = None
  /\ cam_closed = FALSE
  /\ was_opened = FALSE
  /\ consumer_raised = FALSE

\* EyeTrackerApp.__init__
AppInit ==
  /\ state = "IDLE"
  /\ recording_start_time = None
  /\ recording_end_time = None
  /\ gaze_data = <<>>
  /\ session_dir = None
  /\ images_dir = None
  /\ last_image_save_time = 0
  /\ image_counter = 0
  /\ current_frame = None
  /\ current_gaze_x = None
  /\ current_gaze_y = None
  /\ calibration_score = None
  /\ original_camera = None
  /\ subscribed = FALSE
  /\ cali_error = None
  /\ saved_files = <<>>
  /\ last_forward = None
  /\ statistics = None
  /\ stop_done = FALSE
  /\ disk = None /\ gaze_calls = 0 /\ lost_calls = 0
  /\ now = 0
  /\ result_quality = None /\ main_quality = None /\ stop_steps = <<>>
  /\ gaze_pending = FALSE

InitCam ==
  /\ CamInit
  /\ AppInit
  /\ ctl_pc = "idle" /\ ctl_ret = "idle" /\ set_req = Registration("None")
  /\ calls = 0 /\ proc = "running" /\ handler = "none"

CaptureStep ==
  \E i \in Threads :
    \/ CapLoop(i) \/ CapRead(i) \/ CapLock(i) \/ CapCheck(i)
    \/ CapFunc(i) \/ CapArgs(i) \/ CapCall(i) \/ CapUnlock(i)

SetStep == SetLock \/ SetFunc \/ SetArgs \/ SetKwargs

NextCam ==
  \/ HarnessOpen
  \/ HarnessClose
  \/ HarnessRelease
  \/ \E f \in HarnessFuncs : HarnessSet(f)
  \/ CloseJoin
  \/ CloseRelease
  \/ ReleaseJoin
  \/ SetStep
  \/ CaptureStep

SpecCam == InitCam /\ [][NextCam]_vars

\* the camera as GazeFollower() leaves it: opened, its capture thread started,
\* the estimator's process_frame registered
CamStarted ==
  /\ camera_thread_running = TRUE
  /\ camera_thread = 1
  /\ cap_opened = TRUE
  /\ lock_owner = NoThread
  /\ callback_func = "process_frame"
  /\ callback_args = "process_frame"
  /\ callback_kwargs = "process_frame"
  /\ thr = [i \in Threads |-> IF i = 1 THEN [Unborn EXCEPT !.pc = "loop"] ELSE Unborn]
  /\ cap_releases = 0
  /\ last_call = None
  /\ cam_closed = FALSE
  /\ was_opened = TRUE
  /\ consumer_raised = FALSE

CtlMain ==
  /\ ctl_pc = "main" /\ ctl_ret = "main" /\ set_req = Registration("None")
  /\ calls = 0 /\ proc = "running" /\ handler = "none"

\* EyeTrackerApp() then run()
Init == CamStarted /\ AppInit /\ CtlMain

LostSample == [gaze_x |-> None, gaze_y |-> None, status |-> FALSE,
               looking_at_screen |-> FALSE, tracking_lost |-> TRUE]

\* an app object whose state field holds IDLE, CALIBRATED or STOPPED, the other
\* fields as calibrate() and a finished session of one lost sample would have
\* left them
InitHandler ==
  /\ CamStarted /\ CtlMain
  /\ state \in {"IDLE", "CALIBRATED", "STOPPED"}
  /\ \E e \in Scores : calibration_score = IF state = "IDLE" THEN None ELSE Some(e)
  /\ cali_error = calibration_score
  /\ recording_start_time = IF state = "STOPPED" THEN Some(0) ELSE None
  /\ recording_end_time = IF state = "STOPPED" THEN Some(0) ELSE None
  /\ gaze_data = IF state = "STOPPED" THEN <<LostSample>> ELSE <<>>
  /\ original_camera = IF state = "STOPPED"
                       THEN <<"process_frame", "process_frame", "process_frame">>
                       ELSE None
  /\ session_dir = None /\ images_dir = None
  /\ last_image_save_time = 0 /\ image_counter = 0
  /\ current_frame = None /\ current_gaze_x = None /\ current_gaze_y = None
  /\ subscribed = FALSE /\ saved_files = <<>> /\ last_forward = None
  /\ statistics = None /\ stop_done = FALSE /\ now = 0
  /\ disk = None /\ gaze_calls = Len(gaze_data) /\ lost_calls = Len(gaze_data)
  /\ result_quality = None /\ main_quality = None /\ stop_steps = <<>>
  /\ gaze_pending = FALSE

\* the program as run while the estimator reports no gaze result (no face in
\* view), over the longer time horizon
NextImages ==
  \/ HandleClick
  \/ RunQuit
  \/ CalibrateAttempt
  \/ CalStore
  \/ StartRecording
  \/ StartSubscribe
  \/ StopUnsubscribe
  \/ StopReset
  \/ StopDirs
  \/ StopExport
  \/ StopStats
  \/ StopExit
  \/ QuitExit
  \/ ReleaseJoin
  \/ CloseJoin
  \/ CloseRelease
  \/ SetStep
  \/ CaptureStep
  \/ TickLong

Next ==
  \/ HandleClick
  \/ RunQuit
  \/ CalibrateAttempt
  \/ CalStore
  \/ StartRecording
  \/ StartSubscribe
  \/ StopUnsubscribe
  \/ StopReset
  \/ StopDirs
  \/ StopExport
  \/ StopStats
  \/ StopExit
  \/ QuitExit
  \/ ReleaseJoin
  \/ CloseJoin
  \/ CloseRelease
  \/ SetStep
  \/ CaptureStep
  \/ GazeCallback
  \/ Tick

Spec == Init /\ [][Next]_vars

SpecHandler == InitHandler /\ [][Next]_vars

SpecImages == Init /\ [][NextImages]_vars

\* the program as run, the estimator delivering its results from its own thread
NextAsync ==
  \/ HandleClick
  \/ RunQuit
  \/ CalibrateAttempt
  \/ CalStore
  \/ StartRecording
  \/ StartSubscribe
  \/ StopUnsubscribe
  \/ StopReset
  \/ StopDirs
  \/ StopExport
  \/ StopStats
  \/ StopExit
  \/ QuitExit
  \/ ReleaseJoin
  \/ CloseJoin
  \/ CloseRelease
  \/ SetStep
  \/ CaptureStep
  \/ GazeDispatch
  \/ GazeDeliver
  \/ Tick

SpecAsync == Init /\ [][NextAsync]_vars

\* the steps the controlling thread takes without waiting for the operator or for
\* the lock (get_session_name is taken to be answered)
ControllerStep ==
  \/ CalStore \/ StartRecording \/ StartSubscribe
  \/ StopUnsubscribe \/ StopReset \/ StopDirs \/ StopExport \/ StopStats \/ StopExit
  \/ QuitExit \/ ReleaseJoin \/ CloseJoin \/ CloseRelease
  \/ SetFunc \/ SetArgs \/ SetKwargs

ThreadStep(i) ==
  \/ CapLoop(i) \/ CapRead(i) \/ CapLock(i) \/ CapCheck(i)
  \/ CapFunc(i) \/ CapArgs(i) \/ CapCall(i) \/ CapUnlock(i)

\* every thread that can run does; a thread waiting for callback_and_param_lock
\* gets it when it is free again and again (the capture thread holds it only for
\* the invocation and spends the rest of each round in the device read)
Fairness ==
  /\ WF_vars(ControllerStep)
  /\ SF_vars(SetLock)
  /\ \A i \in Threads : WF_vars(ThreadStep(i))

\* the program as run, under fair scheduling
SpecFair == Init /\ [][Next]_vars /\ Fairness

\* one camera under arbitrary calls, under fair scheduling
SpecCamFair == InitCam /\ [][NextCam]_vars /\ Fairness

(* ================= SpecStart: start_recording, any past ================ *)

\* start_recording() is entered from the start button on an app object in
\* CALIBRATED: a fresh one, or one a previous session left its fields in (a log,
\* an image counter, a last-save time, a displayed frame and gaze position, a
\* session directory, the consumer saved at the previous start)
InitStart ==
  /\ CamStarted
  /\ ctl_pc = "start_recording" /\ ctl_ret = "main" /\ set_req = Registration("None")
  /\ calls = 0 /\ proc = "running" /\ handler = "start"
  /\ state = "CALIBRATED"
  /\ \E e \in Scores : calibration_score = Some(e)
  /\ cali_error = calibration_score
  /\ now \in 0..1
  /\ \E previous \in BOOLEAN :
       IF previous
       THEN /\ recording_start_time = Some(0) /\ recording_end_time = Some(now)
            /\ gaze_data = <<LostSample>>
            /\ image_counter \in 1..MaxImages
            /\ last_image_save_time = 0
            /\ current_frame \in {None, Some("frame")}
            /\ current_gaze_x = (IF current_frame = None THEN None ELSE Some(0))
            /\ current_gaze_y = current_gaze_x
            /\ session_dir \in {None, Some(0)}
            /\ images_dir = session_dir
            /\ original_camera = <<"process_frame", "process_frame", "process_frame">>
       ELSE /\ recording_start_time = None /\ recording_end_time = None
            /\ gaze_data = <<>>
            /\ image_counter = 0
            /\ last_image_save_time = 0
            /\ current_frame = None /\ current_gaze_x = None /\ current_gaze_y = None
            /\ session_dir = None /\ images_dir = None
            /\ original_camera = None
  /\ subscribed = FALSE /\ saved_files = <<>> /\ last_forward = None
  /\ statistics = None /\ stop_done = FALSE
  /\ disk = None /\ gaze_calls = Len(gaze_data) /\ lost_calls = Len(gaze_data)
  /\ result_quality = None /\ main_quality = None /\ stop_steps = <<>>
  /\ gaze_pending = FALSE

\* the start and the session that follows it, up to the next operator event
NextStart ==
  \/ StartRecording
  \/ StartSubscribe
  \/ SetStep
  \/ CaptureStep
  \/ GazeCallback
  \/ Tick

SpecStart == InitStart /\ [][NextStart]_vars

(* ==================== SpecTier: the quality displays =================== *)

\* the calibration-result screen is drawn for the controller's mean error
DrawCaliResult ==
  /\ Running
  /\ result_quality' = Some(draw_cali_result(cali_error))
  /\ UNCHANGED <<camVars, obsVars, ctlVars, appVars, now, main_quality, stop_steps, gaze_pending>>

\* draw_ui(): if self.state in [CALIBRATED, RECORDING]: draw_calibration_quality()
DrawUI ==
  /\ Running
  /\ ctl_pc = "main"
  /\ main_quality' = IF state \in {"CALIBRATED", "RECORDING"}
                     THEN draw_calibration_quality(calibration_score)
                     ELSE None
  /\ UNCHANGED <<camVars, obsVars, ctlVars, appVars, now, result_quality, stop_steps, gaze_pending>>

\* an app object in each AppState whose stored score is the controller's mean
\* error, for each mean error (None: no calibration was fitted)
InitTier ==
  /\ CamStarted /\ CtlMain
  /\ state \in AppState
  /\ cali_error \in {None} \cup {Some(m) : m \in MeanErrors}
  /\ calibration_score = cali_error
  /\ recording_start_time = None /\ recording_end_time = None
  /\ gaze_data = <<>> /\ original_camera = None
  /\ session_dir = None /\ images_dir = None
  /\ last_image_save_time = 0 /\ image_counter = 0
  /\ current_frame = None /\ current_gaze_x = None /\ current_gaze_y = None
  /\ subscribed = FALSE /\ saved_files = <<>> /\ last_forward = None
  /\ statistics = None /\ stop_done = FALSE /\ now = 0
  /\ disk = None /\ gaze_calls = 0 /\ lost_calls = 0
  /\ result_quality = None /\ main_quality = None /\ stop_steps = <<>>
  /\ gaze_pending = FALSE

NextTier ==
  \/ DrawCaliResult
  \/ DrawUI

SpecTier == InitTier /\ [][NextTier]_vars

(* ================================ claims =============================== *)

\* the state each operator event is legal in, as the transition table gives it
\* ("recalibrate" and "new" are the two recalibrate buttons)
GateOf(b) ==
  CASE b = "calibrate" -> {"IDLE"}
    [] b = "start" -> {"CALIBRATED"}
    [] b = "stop" -> {"RECORDING"}
    [] b = "recalibrate" -> {"CALIBRATED"}
    [] b = "new" -> {"STOPPED"}
    [] b = "same" -> {"STOPPED"}
    [] b = "quit" -> {"STOPPED"}

C1_Step ==
  /\ (handler = "none" /\ handler' \in Buttons) => state \in GateOf(handler')
  /\ (ctl_pc = "main" /\ ctl_pc' = "main") =>
       /\ state' # state => (state = "STOPPED" /\ state' = "CALIBRATED")
       /\ state' = state =>
            /\ UNCHANGED <<recording_start_time, recording_end_time, calibration_score,
                           original_camera, subscribed, callback_func, callback_args,
                           callback_kwargs>>
            /\ Len(gaze_data') >= Len(gaze_data)
            /\ image_counter' >= image_counter

C2_StopReachesStopped == stop_done => state = "STOPPED"

C3_Step ==
  /\ (ctl_pc = "calibrate" /\ ctl_pc' = "calibrate") =>
       UNCHANGED <<state, calibration_score>>
  /\ (handler = "calibrate" /\ ctl_pc = "cal_store" /\ ctl_pc' # "cal_store") =>
       (state' = "CALIBRATED" /\ calibration_score' = cali_error)
  /\ (handler = "calibrate" /\ handler' = "none") =>
       /\ state' = "RECORDING"
       /\ calibration_score' = cali_error' /\ calibration_score' # None
       /\ callback_func' = "wrapped_callback"
       /\ callback_args' = "wrapped_callback"
       /\ callback_kwargs' = "wrapped_callback"

\* C3: a rejected calibration pass changes neither the state nor the stored score;
\* an accepted one stores the controller's mean error and sets CALIBRATED, and
\* when calibrate() returns the state is RECORDING with the bridge registered.
C3_CalibrateAutoStarts == [][C3_Step]_vars

\* C3 witness: calibrate() has returned from IDLE: recording, bridge installed
C3_Witness ==
  /\ ctl_pc = "main" /\ handler = "none" /\ state = "RECORDING"
  /\ callback_func = "wrapped_callback" /\ calibration_score # None /\ subscribed

C4_Original ==
  (handler \in {"recalibrate", "new"} /\ handler' = "none") => state' = "CALIBRATED"

C4_Step ==
  /\ (handler \in {"recalibrate", "new"} /\ ctl_pc = "cal_store" /\ ctl_pc' # "cal_store") =>
       (state' = "CALIBRATED" /\ calibration_score' = cali_error)
  /\ (handler \in {"recalibrate", "new"} /\ handler' = "none") =>
       /\ state' = "RECORDING"
       /\ calibration_score' = cali_error' /\ calibration_score' # None

C5_Step ==
  (ctl_pc = "main" /\ handler = "none" /\ state = "STOPPED" /\ state' # "STOPPED") =>
    /\ state' = "CALIBRATED"
    /\ gaze_data' = <<>>
    /\ recording_start_time' = None
    /\ recording_end_time' = None
    /\ UNCHANGED <<calibration_score, camVars>>

\* C5: continue-same-calibration in STOPPED moves to CALIBRATED, empties the log,
\* clears the start and end times and leaves the calibration score, the registered
\* consumer and the camera unchanged.
C5_ContinueSame == [][C5_Step]_vars

\* C5 witness: the state after continue-same-calibration (the saved consumer of
\* the finished session is still an attribute; the score is kept)
C5_Witness ==
  /\ state = "CALIBRATED" /\ ctl_pc = "main" /\ original_camera # None
  /\ gaze_data = <<>> /\ recording_start_time = None /\ recording_end_time = None
  /\ calibration_score # None

C6_Consistent ==
  last_call # None =>
    /\ last_call[1] # "None"
    /\ last_call[2] = last_call[1]
    /\ last_call[3] = last_call[1]

C6_NoOp ==
  \A i \in Threads :
    (thr[i].pc = "check" /\ callback_func = "None" /\ thr'[i].pc # "check") =>
      (thr'[i].pc = "unlock" /\ last_call' = last_call)

\* C6: every invocation calls a function with the args and kwargs registered with
\* that same function, and an invocation with no consumer registered calls nothing.
C6_SwapAtomic == []C6_Consistent /\ [][C6_NoOp]_vars

\* C6 witness: a swap is half done (func stored, args not yet) while a capture
\* thread that has already delivered frames waits for the lock
C6_Witness ==
  /\ ctl_pc = "set_args" /\ callback_func # callback_args /\ last_call # None
  /\ \E i \in Threads : thr[i].pc = "lock"

InInvocation(i) == thr[i].pc \in {"func", "args", "call"}

\* C7: after close() (or release()) has returned, and until the next open(), no
\* capture thread is inside an invocation of the consumer.
C7_NoInvocationAfterClose == cam_closed => \A i \in Threads : ~InInvocation(i)

\* C8: after close() (or release()) has returned on a source that was opened, the
\* device is not open and was released exactly once.
C8_ReleasedOnceAfterClose ==
  (cam_closed /\ was_opened) => (~cap_opened /\ cap_releases = 1)

\* C9: once a consumer has raised inside a capture-loop invocation the process
\* has terminated.
C9_ConsumerExceptionFatal == consumer_raised => proc # "running"

C10_Step ==
  \A i \in Threads :
    /\ (thr[i].pc = "read" /\ thr'[i] # thr[i]) =>
         \/ /\ thr'[i].pc = "loop" /\ thr'[i].fails = thr[i].fails + 1
            /\ UNCHANGED <<callback_func, callback_args, callback_kwargs, last_call,
                           camera_thread_running, consumer_raised>>
         \/ thr'[i].pc = "lock" /\ thr'[i].fails = thr[i].fails
    /\ (thr[i].pc # "dead" /\ thr'[i].pc = "dead") =>
         \/ thr[i].pc = "loop" /\ ~camera_thread_running
         \/ thr[i].pc = "call"

\* C10: a failed read invokes nothing, leaves the registered consumer alone and
\* returns the thread to the head of its loop; a read that succeeds, after any
\* number of failures, goes on to the invocation; a capture thread ends only on
\* the stop flag or on a consumer exception, never on a read failure.
C10_ReadFailureTransient == [][C10_Step]_vars

\* C10 witness: a frame read after MaxFails consecutive failed reads is on its way
\* to the invocation, a consumer being registered
C10_Witness ==
  /\ \E i \in Threads : thr[i].pc = "lock" /\ thr[i].fails = MaxFails
  /\ MaxFails >= 2 /\ callback_func # "None" /\ camera_thread_running

\* capture threads that were started and have not ended
AliveThreads == {i \in Threads : thr[i].pc \notin {"unborn", "dead"}}

\* the source is open and in use: the device is open, the loop flag is set and no
\* consumer exception has ended a capture thread
SourceInUse == cap_opened /\ camera_thread_running /\ ~consumer_raised

\* C11: at most one capture thread is running at any moment, and exactly one
\* while the source is open.
C11_OneCaptureThread ==
  /\ Cardinality(AliveThreads) <= 1
  /\ SourceInUse => Cardinality(AliveThreads) = 1

ProcessFrame == <<"process_frame", "process_frame", "process_frame">>

C12_Step ==
  \A i \in Threads :
    (thr[i].pc = "call" /\ thr[i].func = "wrapped_callback" /\ thr'[i] # thr[i]) =>
      /\ thr'[i].pc = "unlock" /\ thr'[i].fwd = 1
      /\ original_camera = ProcessFrame /\ last_forward' = original_camera
      /\ consumer_raised' = consumer_raised /\ proc' = proc

\* C12: every invocation of the bridge forwards exactly once to the consumer that
\* was registered before start (the estimator's process_frame), whatever the
\* frame-capture and save steps did, and whether or not the forwarded call raised
\* the capture thread leaves the invocation normally and goes on.
C12_BridgeForwardsOnce == [][C12_Step]_vars

\* C12 witness: a bridge invocation whose image save failed has forwarded
C12_Witness ==
  \E i \in Threads :
    /\ thr[i].pc = "unlock" /\ thr[i].fwd = 1 /\ last_forward = ProcessFrame
    /\ image_counter = 1 /\ saved_files = <<>>

\* a thread leaves a bridge invocation made while recording
BridgeReturns(i) ==
  /\ thr[i].pc = "call" /\ thr[i].func = "wrapped_callback" /\ thr'[i].pc # "call"
  /\ state = "RECORDING"

SaveDue == now - last_image_save_time >= image_save_interval

SaveAttempted == image_counter' # image_counter \/ images_dir' # images_dir

C13_Step ==
  \A i \in Threads :
    BridgeReturns(i) =>
      /\ SaveDue => SaveAttempted
      /\ (SaveAttempted /\ saved_files' = saved_files) =>
           (current_frame' = Some("frame") /\ thr'[i].fwd = 1)

\* C13: on one bridge invocation a failure of the latest-frame update does not
\* prevent the image save that is due on it (a due save is always attempted), and
\* a failed save leaves the latest-frame update and the forwarding done.
C13_IndependentGuards == [][C13_Step]_vars

\* C14: the image files written so far in the session are numbered 1..k in the
\* order they were written, with no gap and no repeat.
C14_GapFreeNumbers == \A k \in 1..Len(saved_files) : saved_files[k] = k

\* C15: once the session is stopped, the number of images written is within 1 of
\* floor(session_duration / save_interval).
C15_ImageCount ==
  stop_done =>
    LET expected == (recording_end_time[1] - recording_start_time[1]) \div image_save_interval
        written == Len(saved_files)
    IN written - expected <= 1 /\ expected - written <= 1

\* C16: the final session directory is the operator's name if no directory of
\* that name existed, otherwise name_k for the smallest k >= 1 such that name_k
\* did not exist; it is never a directory that existed before.
C16_FreshSessionDir ==
  disk # None =>
    /\ session_dir = Some(IF 0 \in disk[1] THEN FreeSuffix(disk[1]) ELSE 0)
    /\ session_dir[1] \notin disk[1]

C18_SampleConsistent ==
  \A k \in 1..Len(gaze_data) :
    LET d == gaze_data[k] IN
    /\ d.looking_at_screen =>
         /\ d.status /\ d.gaze_x # None /\ d.gaze_y # None
         /\ 0 <= d.gaze_x[1] /\ d.gaze_x[1] <= ScreenW
         /\ 0 <= d.gaze_y[1] /\ d.gaze_y[1] <= ScreenH
    /\ d.tracking_lost = ~d.status

\* C18 witness: a tracked sample whose coordinates are off the display is logged
\* as not looking at the screen
C18_Witness ==
  \E k \in 1..Len(gaze_data) :
    /\ gaze_data[k].status /\ gaze_data[k].gaze_x # None
    /\ gaze_data[k].gaze_y[1] < 0 /\ ~gaze_data[k].looking_at_screen

\* x = n / d for the exact quotient x (d > 0)
FracIs(x, n, d) == x[2] > 0 /\ x[1] * d = n * x[2]

\* the statistics the reducer gives for a log and a duration
C19_Reduced(log, duration, st) ==
  LET n == Len(log)
      screen == Cardinality({k \in 1..n : log[k].looking_at_screen})
      lost == Cardinality({k \in 1..n : log[k].tracking_lost})
  IN /\ st.screen_samples = screen /\ st.lost_samples = lost /\ st.total_samples = n
     /\ st.total_duration = duration
     /\ IF n = 0
        THEN FracIs(st.time_looking_at_screen, 0, 1) /\ FracIs(st.time_tracking_lost, 0, 1)
        ELSE /\ FracIs(st.time_looking_at_screen, duration * screen, n)
             /\ FracIs(st.time_tracking_lost, duration * lost, n)
     /\ IF duration = 0 \/ n = 0
        THEN FracIs(st.percentage_looking, 0, 1) /\ FracIs(st.percentage_lost, 0, 1)
        ELSE /\ FracIs(st.percentage_looking, 100 * screen, n)
             /\ FracIs(st.percentage_lost, 100 * lost, n)

\* C19: the statistics produced at stop are the reducer's function of the log and
\* the duration: the counts, time = duration * count / len (0 for an empty log)
\* and percentage = 100 * time / duration (0 for a zero duration).
C19_StatisticsReducer ==
  stop_done => (statistics # None /\ C19_Reduced(gaze_data, Duration, statistics[1]))

TierOf(m) ==
  IF m < 500 THEN "EXCELLENT"
  ELSE IF m < 1000 THEN "BONNE"
  ELSE IF m < 2000 THEN "MOYENNE"
  ELSE "FAIBLE"

TierAt(m, t) ==
  draw_cali_result(Some(m)) = t /\ draw_calibration_quality(Some(m)) = Some(t)

SessionReleasing ==
  \/ ctl_pc \in {"stop_dirs", "stop_export", "stop_stats", "stop_exit"}
  \/ ctl_ret = "stop_exit" /\ ctl_pc \in {"release_join", "close_join", "close_release"}

\* a capture thread has loaded the bridge as the callee of its invocation
BridgeInFlight == \E i \in Threads : thr[i].func = "wrapped_callback"

C22_Step ==
  (SessionReleasing /\ SessionReleasing') =>
    UNCHANGED <<current_frame, last_image_save_time, image_counter, saved_files>>

\* C22: once stop_recording has begun the directory rename or the export, the
\* bridge is no longer registered, no capture thread is inside a bridge
\* invocation, and the latest frame, the image counter and the saved images no
\* longer change.
C22_StopDoesNotRace ==
  /\ [](SessionReleasing => (callback_func # "wrapped_callback" /\ ~BridgeInFlight))
  /\ [][C22_Step]_vars

\* C22 witness: the export is about to run after a session that saved an image,
\* while the capture thread is inside an invocation of the restored consumer
C22_Witness ==
  /\ ctl_pc = "stop_export" /\ saved_files # <<>>
  /\ \E i \in Threads : thr[i].pc = "call" /\ thr[i].func = "process_frame"

StopOrder == <<"dirs", "export", "stats">>

IsPrefix(a, b) == Len(a) <= Len(b) /\ a = SubSeq(b, 1, Len(a))

C24_Step ==
  /\ (ctl_pc = "start_recording" /\ ctl_pc' # "start_recording") =>
       /\ state' = "RECORDING" /\ gaze_data' = <<>> /\ image_counter' = 0
       /\ recording_start_time' = Some(now) /\ last_image_save_time' = now
       /\ current_frame' = None /\ current_gaze_x' = None /\ current_gaze_y' = None
       /\ callback_func' # "wrapped_callback" /\ ~subscribed'
  /\ (ctl_pc = "start_recording" /\ ctl_pc' = "start_recording") =>
       UNCHANGED <<gaze_data, image_counter, saved_files, last_image_save_time>>
  /\ (callback_func # "wrapped_callback" /\ callback_func' = "wrapped_callback") =>
       /\ state = "RECORDING" /\ gaze_data = <<>> /\ image_counter = 0
       /\ last_image_save_time = recording_start_time[1]
       /\ current_frame = None /\ current_gaze_x = None /\ current_gaze_y = None
  /\ (~subscribed /\ subscribed') =>
       /\ gaze_data = <<>> /\ gaze_calls = 0
       /\ callback_func = "wrapped_callback"
  /\ image_counter' # image_counter =>
       \/ ctl_pc = "start_recording" /\ image_counter' = 0
       \/ BridgeInFlight /\ image_counter' = image_counter + 1

\* C24: start_recording sets RECORDING, empties the log, zeroes the image counter,
\* sets the last-save time to the start time and clears the latest frame and the
\* gaze position, whatever these held; the bridge is registered and the gaze
\* collector subscribed only after that, so the first frame and the first sample
\* of the session meet the reset counters.
C24_StartResets ==
  /\ [][C24_Step]_vars
  /\ [](ctl_pc # "start_recording" => Len(gaze_data) = gaze_calls)

\* C24 witness: after a start taken over a previous session's fields (its image
\* counter was not 0) the session has saved its first image, number 1, and
\* logged one sample
C24_Witness ==
  /\ recording_end_time # None /\ state = "RECORDING"
  /\ saved_files = <<1>> /\ image_counter = 1 /\ Len(gaze_data) = 1

\* C25: under fair scheduling, with device reads and consumer calls returning,
\* every set_on_image_callback, close() and release() the controlling thread has
\* entered returns, whether the capture thread is inside an invocation, waiting
\* for the lock, or has already exited.
C25_CallsReturn ==
  /\ (handler = "set") ~> (handler = "none")
  /\ (handler = "close") ~> (handler = "none" /\ cam_closed)
  /\ (handler = "release") ~> (handler = "none" /\ cam_closed)

\* C25 witness: release() waits in its join while the capture thread holds the
\* lock inside a consumer invocation
C25_Witness ==
  /\ handler = "release" /\ ctl_pc = "release_join"
  /\ \E i \in Threads : i = camera_thread /\ thr[i].pc = "call" /\ lock_owner = i

\* calculate_statistics is about to read the log, or has read it
StatsStarted == ctl_pc = "stop_stats" \/ Len(stop_steps) = Len(StopOrder)

C26_Step == StatsStarted => gaze_data' = gaze_data

\* C26: the export and the statistics run only when the gaze collector is no
\* longer subscribed, and from the moment the statistics computation starts no
\* sample is appended to the log.
C26_LogFinalized ==
  /\ [](ctl_pc \in {"stop_export", "stop_stats"} => ~subscribed)
  /\ [][C26_Step]_vars

\* the consumer slot of the camera
Slot == <<callback_func, callback_args, callback_kwargs>>

C27_Step ==
  /\ (ctl_pc = "start_recording" /\ ctl_pc' # "start_recording") =>
       original_camera' = Slot
  /\ (ctl_ret = "stop_reset" /\ ctl_pc = "set_kwargs" /\ ctl_pc' = "stop_reset") =>
       /\ Slot' = original_camera /\ Slot' = ProcessFrame
       /\ ~BridgeInFlight'

\* C27: when stop's set_on_image_callback returns, the camera's (function, args,
\* kwargs) is the triple that was registered when start_recording was entered
\* (the estimator's process_frame), and from then on neither the slot nor a
\* capture thread holds the bridge.
C27_RoundTrip ==
  /\ [][C27_Step]_vars
  /\ []((ctl_pc = "stop_reset" \/ SessionReleasing) =>
          (Slot = ProcessFrame /\ ~BridgeInFlight))

\* C27 witness: stop has restored the consumer after the bridge had been invoked
C27_Witness ==
  /\ ctl_pc = "stop_reset" /\ Slot = ProcessFrame
  /\ last_call # None /\ last_call[1] = "wrapped_callback" /\ last_forward = ProcessFrame

\* C28: start_recording is never entered while the bridge is registered, so the
\* consumer the bridge forwards to is never the bridge, whatever sequence of
\* button events is taken from whatever state; each bridge invocation forwards
\* once, to the estimator.
C28_BridgeInstalledOnce ==
  /\ ctl_pc = "start_recording" => (callback_func # "wrapped_callback" /\ ~BridgeInFlight)
  /\ original_camera # None => original_camera[1] # "wrapped_callback"
  /\ callback_func = "wrapped_callback" => original_camera = ProcessFrame
  /\ last_forward # None => last_forward = ProcessFrame
  /\ \A i \in Threads : thr[i].fwd <= 1

\* C28 witness: a session started by recalibrate-and-continue after a previous
\* one: the bridge is registered and has forwarded a frame to the estimator
C28_Witness ==
  /\ recording_end_time # None /\ state = "RECORDING"
  /\ callback_func = "wrapped_callback" /\ original_camera = ProcessFrame
  /\ last_forward = ProcessFrame /\ \E i \in Threads : thr[i].fwd = 1


\* the sum of the exact quotients a and b is at most the integer t
FracSumLeq(a, b, t) ==
  /\ a[2] > 0 /\ b[2] > 0
  /\ a[1] * b[2] + b[1] * a[2] <= t * a[2] * b[2]

ImageWritten == Len(saved_files') > Len(saved_files)

\* a written image is due: one interval after the session start and after the
\* last-save time, which it sets to its own clock reading; the last-save time
\* never goes back, so it is never before the previous written image
C30_Spaced ==
  /\ ImageWritten =>
       /\ now - recording_start_time[1] >= image_save_interval
       /\ now - last_image_save_time >= image_save_interval
       /\ last_image_save_time' = now
  /\ last_image_save_time' >= last_image_save_time

\* the last-save time is moved by start_recording and by a written image only
C30_FailedKeepsTime ==
  last_image_save_time' # last_image_save_time =>
    (ImageWritten \/ (ctl_pc = "start_recording" /\ ctl_pc' # ctl_pc))

\* C30: within a session the first image is saved no earlier than one save
\* interval after the session start and two consecutive successful saves are at
\* least one save interval apart; a save attempt that fails does not advance the
\* last-save time, so the save is retried on the next frame.
C30_SaveSpacing == [][C30_Spaced /\ C30_FailedKeepsTime]_vars

====
